---- MODULE Spec2Model ----
(***************************************************************************)
(* Toll management system: pass lifecycle and validation engine.           *)
(*                                                                         *)
(* Time is counted in whole hours.  The stored tables (toll_passes,        *)
(* transactions, toll_booths) are the state; purchase_pass and             *)
(* process_vehicle are the two operations of TollManagementSystem, and     *)
(* the services (pricing, validation, lifecycle) are operators.            *)
(***************************************************************************)
EXTENDS Integers, Sequences, FiniteSets, TLC

\* ------------------------------------------------------------------------
\* Bounds of the model
\* ------------------------------------------------------------------------
MaxPasses == 2
MaxTxns == 4
MaxTicks == 2
MaxRequests == 2
MaxStarted == 3
EvalMaxStart == 2
EvalMaxUsed == 2
EvalMaxTime == 171

\* Clock advances offered to the environment (hours) and the clock advance
\* that may separate two reads of datetime.now() inside one call.
TickSteps == {1, 24, 168}
Drift == {0, 1}

\* ------------------------------------------------------------------------
\* models.py: enums and the null timestamp
\* ------------------------------------------------------------------------
NULL == -1

VehicleType == {"two_wheeler", "four_wheeler"}
PassType == {"single", "return", "seven_day"}
PassStatus == {"active", "expired", "exhausted"}

\* ------------------------------------------------------------------------
\* Sample data registered at start-up (api.py lifespan)
\* ------------------------------------------------------------------------
Vehicles == {"MH-12-AB-1234", "MH-14-CD-5678"}

vehicle_type_of(vehicle_reg) ==
    IF vehicle_reg = "MH-12-AB-1234" THEN "two_wheeler" ELSE "four_wheeler"

Tolls == {"T1", "T2"}

toll_booths(toll_id) ==
    IF toll_id = "T1" THEN {"B1", "B2", "B3"} ELSE {"B1", "B2"}

BoothKeys == {<<t, b>> : t \in Tolls, b \in {"B1", "B2", "B3"}} \ {<<"T2", "B3">>}

\* Calls offered to the operations, <<vehicle_reg, toll_id, booth_id>>: one
\* vehicle at both tolls, and the other vehicle at another booth of the
\* first toll.
CallInputs ==
    {<<"MH-12-AB-1234", "T1", "B1">>,
     <<"MH-12-AB-1234", "T2", "B1">>,
     <<"MH-14-CD-5678", "T1", "B2">>}

\* ------------------------------------------------------------------------
\* PassPricingService
\* ------------------------------------------------------------------------
get_pass_price(vehicle_type, pass_type) ==
    IF vehicle_type = "two_wheeler"
    THEN CASE pass_type = "single" -> 50
           [] pass_type = "return" -> 80
           [] pass_type = "seven_day" -> 250
    ELSE CASE pass_type = "single" -> 100
           [] pass_type = "return" -> 150
           [] pass_type = "seven_day" -> 500

get_pass_duration(pass_type) ==
    CASE pass_type = "single" -> 1
      [] pass_type = "return" -> 24
      [] pass_type = "seven_day" -> 168

get_pass_uses(pass_type) ==
    CASE pass_type = "single" -> 1
      [] pass_type = "return" -> 2
      [] pass_type = "seven_day" -> 999999

\* format_duration: days and seconds are the fields of timedelta.
format_duration(duration) ==
    IF duration \div 24 = 7 THEN "7 days"
    ELSE IF duration \div 24 = 1 THEN "24 hours"
    ELSE IF duration \div 24 = 0 /\ duration % 24 = 1 THEN "1 hour"
    ELSE ToString(duration) \o " hours"

\* The pass types in the order the PassType enum lists them.
PassTypeOrder == <<"single", "return", "seven_day">>

\* Options that quote the four-wheeler price to every vehicle.
display_pass_options_one_price_list(vehicle_type) ==
    [k \in DOMAIN PassTypeOrder |->
        [pass_type |-> PassTypeOrder[k],
         price |-> get_pass_price("four_wheeler", PassTypeOrder[k]),
         duration |-> format_duration(get_pass_duration(PassTypeOrder[k])),
         uses |-> get_pass_uses(PassTypeOrder[k])]]

\* TollManagementSystem.display_pass_options: one option per pass type.
display_pass_options(vehicle_type) ==
    [k \in DOMAIN PassTypeOrder |->
        [pass_type |-> PassTypeOrder[k],
         price |-> get_pass_price(vehicle_type, PassTypeOrder[k]),
         duration |-> format_duration(get_pass_duration(PassTypeOrder[k])),
         uses |-> get_pass_uses(PassTypeOrder[k])]]

\* pass_options = None in a returned dict.
NoOptions == <<>>

\* ------------------------------------------------------------------------
\* PassValidationService
\* ------------------------------------------------------------------------
PassValidationResult(is_valid, reason, is_time_valid, has_uses_remaining, is_first_use) ==
    [is_valid |-> is_valid, reason |-> reason, is_time_valid |-> is_time_valid,
     has_uses_remaining |-> has_uses_remaining, is_first_use |-> is_first_use]

\* validate_pass with the validity window counted from the purchase: a pass
\* left unused for its whole duration is refused on its first use.
validate_pass_from_purchase(toll_pass, current_time) ==
    LET is_first_use == toll_pass.first_used_at = NULL
        has_uses_remaining == toll_pass.uses_remaining > 0
        is_time_valid ==
            IF is_first_use
            THEN current_time < toll_pass.purchased_at
                                    + get_pass_duration(toll_pass.pass_type)
            ELSE current_time < toll_pass.valid_until
    IN  IF ~is_time_valid
        THEN PassValidationResult(FALSE, "expired", FALSE, has_uses_remaining, is_first_use)
        ELSE IF ~has_uses_remaining
             THEN PassValidationResult(FALSE, "exhausted", TRUE, FALSE, is_first_use)
             ELSE PassValidationResult(TRUE, "none", TRUE, TRUE, is_first_use)

\* validate_pass with <= in the time check: the instant valid_until itself
\* still counts as valid.
validate_pass_inclusive(toll_pass, current_time) ==
    LET is_first_use == toll_pass.first_used_at = NULL
        has_uses_remaining == toll_pass.uses_remaining > 0
        is_time_valid == current_time <= toll_pass.valid_until
    IN  IF is_first_use
        THEN IF ~has_uses_remaining
             THEN PassValidationResult(FALSE, "exhausted", TRUE, FALSE, TRUE)
             ELSE PassValidationResult(TRUE, "none", TRUE, TRUE, TRUE)
        ELSE IF ~is_time_valid
             THEN PassValidationResult(FALSE, "expired", FALSE, has_uses_remaining, FALSE)
             ELSE IF ~has_uses_remaining
                  THEN PassValidationResult(FALSE, "exhausted", TRUE, FALSE, FALSE)
                  ELSE PassValidationResult(TRUE, "none", TRUE, TRUE, FALSE)

\* validate_pass without the uses check of an already-used pass.
validate_pass_time_only(toll_pass, current_time) ==
    LET is_first_use == toll_pass.first_used_at = NULL
        has_uses_remaining == toll_pass.uses_remaining > 0
        is_time_valid == current_time < toll_pass.valid_until
    IN  IF is_first_use
        THEN IF ~has_uses_remaining
             THEN PassValidationResult(FALSE, "exhausted", TRUE, FALSE, TRUE)
             ELSE PassValidationResult(TRUE, "none", TRUE, TRUE, TRUE)
        ELSE IF ~is_time_valid
             THEN PassValidationResult(FALSE, "expired", FALSE, has_uses_remaining, FALSE)
             ELSE PassValidationResult(TRUE, "none", TRUE, has_uses_remaining, FALSE)

\* validate_pass that asks for a use beyond the one about to be taken.
validate_pass_keeps_last_use(toll_pass, current_time) ==
    LET is_first_use == toll_pass.first_used_at = NULL
        has_uses_remaining == toll_pass.uses_remaining > 1
        is_time_valid == current_time < toll_pass.valid_until
    IN  IF is_first_use
        THEN IF ~has_uses_remaining
             THEN PassValidationResult(FALSE, "exhausted", TRUE, FALSE, TRUE)
             ELSE PassValidationResult(TRUE, "none", TRUE, TRUE, TRUE)
        ELSE IF ~is_time_valid
             THEN PassValidationResult(FALSE, "expired", FALSE, has_uses_remaining, FALSE)
             ELSE IF ~has_uses_remaining
                  THEN PassValidationResult(FALSE, "exhausted", TRUE, FALSE, FALSE)
                  ELSE PassValidationResult(TRUE, "none", TRUE, TRUE, FALSE)

\* validate_pass reads the clock itself; current_time is that reading.
validate_pass(toll_pass, current_time) ==
    LET is_first_use == toll_pass.first_used_at = NULL
        has_uses_remaining == toll_pass.uses_remaining > 0
        is_time_valid == current_time < toll_pass.valid_until
    IN  IF is_first_use
        THEN IF ~has_uses_remaining
             THEN PassValidationResult(FALSE, "exhausted", TRUE, FALSE, TRUE)
             ELSE PassValidationResult(TRUE, "none", TRUE, TRUE, TRUE)
        ELSE IF ~is_time_valid
             THEN PassValidationResult(FALSE, "expired", FALSE, has_uses_remaining, FALSE)
             ELSE IF ~has_uses_remaining
                  THEN PassValidationResult(FALSE, "exhausted", TRUE, FALSE, FALSE)
                  ELSE PassValidationResult(TRUE, "none", TRUE, TRUE, FALSE)

\* validate_pass that starts the validity window itself when it sees a
\* never-used pass.
validated_pass_anchoring(toll_pass, current_time) ==
    IF toll_pass.first_used_at = NULL
    THEN [toll_pass EXCEPT !.first_used_at = current_time,
                           !.valid_until = current_time
                                               + get_pass_duration(toll_pass.pass_type)]
    ELSE toll_pass

\* The pass object as validate_pass leaves it: the method only reads
\* first_used_at, valid_until and uses_remaining and assigns no field.
validated_pass(toll_pass, current_time) == toll_pass

determine_pass_status(is_time_valid, has_uses_remaining) ==
    IF ~has_uses_remaining THEN "exhausted"
    ELSE IF ~is_time_valid THEN "expired"
    ELSE "active"

\* ------------------------------------------------------------------------
\* PassLifecycleService
\* ------------------------------------------------------------------------
\* set_first_use with the window counted from the purchase.
set_first_use_from_purchase(toll_pass, current_time) ==
    [toll_pass EXCEPT !.first_used_at = current_time,
                      !.valid_until = toll_pass.purchased_at
                                          + get_pass_duration(toll_pass.pass_type)]

\* set_first_use that forgets valid_until.
set_first_use_no_expiry(toll_pass, current_time) ==
    [toll_pass EXCEPT !.first_used_at = current_time]

set_first_use(toll_pass, current_time) ==
    [toll_pass EXCEPT !.first_used_at = current_time,
                      !.valid_until = current_time + get_pass_duration(toll_pass.pass_type)]

\* use_pass with the sign of the decrement slipped.
use_pass_increment(toll_pass) ==
    LET inc == [toll_pass EXCEPT !.uses_remaining = @ + 1]
    IN  IF inc.uses_remaining = 0
        THEN [inc EXCEPT !.status = "exhausted"]
        ELSE inc

\* use_pass that decrements but never flips the status.
use_pass_no_status(toll_pass) ==
    [toll_pass EXCEPT !.uses_remaining = @ - 1]

\* use_pass that takes two uses for one passage.
use_pass_double(toll_pass) ==
    LET dec == [toll_pass EXCEPT !.uses_remaining = @ - 2]
    IN  IF dec.uses_remaining = 0
        THEN [dec EXCEPT !.status = "exhausted"]
        ELSE dec

use_pass(toll_pass) ==
    LET dec == [toll_pass EXCEPT !.uses_remaining = @ - 1]
    IN  IF dec.uses_remaining = 0
        THEN [dec EXCEPT !.status = "exhausted"]
        ELSE dec

\* update_pass_status without the EXPIRED branch.
update_pass_status_no_expired(toll_pass, is_time_valid, has_uses_remaining) ==
    IF ~has_uses_remaining THEN [toll_pass EXCEPT !.status = "exhausted"]
    ELSE [toll_pass EXCEPT !.status = "active"]

update_pass_status(toll_pass, is_time_valid, has_uses_remaining) ==
    IF ~has_uses_remaining THEN [toll_pass EXCEPT !.status = "exhausted"]
    ELSE IF ~is_time_valid THEN [toll_pass EXCEPT !.status = "expired"]
    ELSE [toll_pass EXCEPT !.status = "active"]

\* ------------------------------------------------------------------------
\* State
\* ------------------------------------------------------------------------
\* pass_id and transaction_id hold the counter value that the code formats
\* as PASS-%04d and TXN-%05d (zero padding to a minimum width).
VARIABLES
    now,                  \* the clock behind datetime.now(), in hours
    ticks,                \* clock advances so far
    passes,               \* table toll_passes, in insertion order
    transactions,         \* table transactions, in insertion order
    booths,               \* table toll_booths: <<toll_id, booth_id>> -> counters
    next_pass_id,         \* TollManagementSystem._next_pass_id
    next_transaction_id,  \* TollManagementSystem._next_transaction_id
    last,                 \* the outcome of the latest call
    ev_pass,              \* evaluator harness: the pass snapshot evaluated
    ev_now,               \* evaluator harness: the instant of the evaluation
    ev_out,               \* evaluator harness: what validate_pass returned
    ev_status,            \* evaluator harness: what determine_pass_status returned
    ev_again,             \* evaluator harness: what a second validate_pass returned
    response,             \* the dict the controller returned for the latest request
    reqs,                 \* requests in flight: slot -> the request's system instance and locals
    started               \* requests received so far

vars == <<now, ticks, passes, transactions, booths, next_pass_id,
          next_transaction_id, last, ev_pass, ev_now, ev_out, ev_status,
          ev_again, response, reqs, started>>

sysvars == <<now, ticks, passes, transactions, booths, next_pass_id,
             next_transaction_id, last>>

evvars == <<ev_pass, ev_now, ev_out, ev_status, ev_again>>

reqvars == <<response, reqs, started>>

\* A pass whose validity window starts when it is built.
TollPass_used_at_purchase(pass_id, vehicle_reg, toll_id, pass_type, vehicle_type, price, purchased_at, first_used_at, valid_until, uses_remaining, status) ==
    [pass_id |-> pass_id, vehicle_reg |-> vehicle_reg, toll_id |-> toll_id,
     pass_type |-> pass_type, vehicle_type |-> vehicle_type, price |-> price,
     purchased_at |-> purchased_at, first_used_at |-> purchased_at,
     valid_until |-> purchased_at + get_pass_duration(pass_type),
     uses_remaining |-> uses_remaining, status |-> status]

TollPass(pass_id, vehicle_reg, toll_id, pass_type, vehicle_type, price, purchased_at, first_used_at, valid_until, uses_remaining, status) ==
    [pass_id |-> pass_id, vehicle_reg |-> vehicle_reg, toll_id |-> toll_id,
     pass_type |-> pass_type, vehicle_type |-> vehicle_type, price |-> price,
     purchased_at |-> purchased_at, first_used_at |-> first_used_at,
     valid_until |-> valid_until, uses_remaining |-> uses_remaining,
     status |-> status]

\* A transaction that records the price of the vehicle's single pass as its
\* amount, whatever amount it is given.
Transaction_flat_amount(transaction_id, booth_id, toll_id, vehicle_reg, vehicle_type, transaction_type, pass_id, amount, timestamp) ==
    [transaction_id |-> transaction_id, booth_id |-> booth_id, toll_id |-> toll_id,
     vehicle_reg |-> vehicle_reg, vehicle_type |-> vehicle_type,
     transaction_type |-> transaction_type, pass_id |-> pass_id,
     amount |-> get_pass_price(vehicle_type, "single"), timestamp |-> timestamp]

\* A transaction that is always logged at the toll's first booth.
Transaction_at_first_booth(transaction_id, booth_id, toll_id, vehicle_reg, vehicle_type, transaction_type, pass_id, amount, timestamp) ==
    [transaction_id |-> transaction_id, booth_id |-> "B1", toll_id |-> toll_id,
     vehicle_reg |-> vehicle_reg, vehicle_type |-> vehicle_type,
     transaction_type |-> transaction_type, pass_id |-> pass_id,
     amount |-> amount, timestamp |-> timestamp]

\* A transaction whose PASSAGE records do not name the pass that was used.
Transaction_unlinked(transaction_id, booth_id, toll_id, vehicle_reg, vehicle_type, transaction_type, pass_id, amount, timestamp) ==
    [transaction_id |-> transaction_id, booth_id |-> booth_id, toll_id |-> toll_id,
     vehicle_reg |-> vehicle_reg, vehicle_type |-> vehicle_type,
     transaction_type |-> transaction_type,
     pass_id |-> IF transaction_type = "PASSAGE" THEN 0 ELSE pass_id,
     amount |-> amount, timestamp |-> timestamp]

Transaction(transaction_id, booth_id, toll_id, vehicle_reg, vehicle_type, transaction_type, pass_id, amount, timestamp) ==
    [transaction_id |-> transaction_id, booth_id |-> booth_id, toll_id |-> toll_id,
     vehicle_reg |-> vehicle_reg, vehicle_type |-> vehicle_type,
     transaction_type |-> transaction_type, pass_id |-> pass_id,
     amount |-> amount, timestamp |-> timestamp]

NoPass == TollPass(0, "", "", "single", "two_wheeler", 0, 0, NULL, NULL, 0, "active")

NoValidation == PassValidationResult(FALSE, "n/a", FALSE, FALSE, FALSE)

\* The outcome of a call: what it returned or raised, together with the
\* pass it looked at (before and after) and the instants it read.  raised
\* tells a call ended by raise ValueError from one ended by return.
Outcome(op, vehicle_reg, toll_id, booth_id, ok, message, pre, post, validation, current_time, eval_time, pass_options, raised) ==
    [op |-> op, vehicle_reg |-> vehicle_reg, toll_id |-> toll_id,
     booth_id |-> booth_id, ok |-> ok, message |-> message,
     pre |-> pre, post |-> post, validation |-> validation,
     current_time |-> current_time, eval_time |-> eval_time,
     pass_options |-> pass_options, raised |-> raised]

\* The dict a controller method returns: status, code, and data.allowed
\* ("n/a" where data carries no allowed field).
Response(status, code, allowed) ==
    [status |-> status, code |-> code, allowed |-> allowed]

NoResponse == Response("none", 0, "n/a")

\* A request slot: where the request is in its handler (pc), its
\* arguments, the id counters of the TollManagementSystem built for it, and
\* the domain objects and clock reading the handler holds.
Request(pc, op, vehicle_reg, toll_id, booth_id, pass_type, instance_next_pass_id, instance_next_transaction_id, toll_pass, booth, current_time) ==
    [pc |-> pc, op |-> op, vehicle_reg |-> vehicle_reg, toll_id |-> toll_id,
     booth_id |-> booth_id, pass_type |-> pass_type,
     next_pass_id |-> instance_next_pass_id,
     next_transaction_id |-> instance_next_transaction_id,
     toll_pass |-> toll_pass, booth |-> booth, current_time |-> current_time]

NoBooth == [vehicles_processed |-> 0, total_charges_collected |-> 0]

Requests == 1..MaxRequests

IdleRequest == Request("idle", "none", "", "", "", "single", 0, 0, NoPass, NoBooth, 0)

NoOutcome == Outcome("none", "", "", "", FALSE, "", NoPass, NoPass,
                     NoValidation, 0, 0, NoOptions, FALSE)

\* ------------------------------------------------------------------------
\* Repositories
\* ------------------------------------------------------------------------
vehicle_exists(vehicle_reg) == vehicle_reg \in Vehicles

toll_exists(toll_id) == toll_id \in Tolls

\* find_active_pass without the toll filter.
find_active_pass_any_toll(ps, vehicle_reg, toll_id) ==
    LET hits == {i \in DOMAIN ps : /\ ps[i].vehicle_reg = vehicle_reg
                                   /\ ps[i].status = "active"}
    IN  IF hits = {} THEN 0
        ELSE CHOOSE i \in hits : \A j \in hits : i <= j

\* find_active_pass without the status filter.
find_active_pass_any_status(ps, vehicle_reg, toll_id) ==
    LET hits == {i \in DOMAIN ps : /\ ps[i].vehicle_reg = vehicle_reg
                                   /\ ps[i].toll_id = toll_id}
    IN  IF hits = {} THEN 0
        ELSE CHOOSE i \in hits : \A j \in hits : i <= j

\* PassRepository.find_active_pass: the first row of (vehicle, toll) whose
\* stored status is ACTIVE; 0 when there is none.
find_active_pass(ps, vehicle_reg, toll_id) ==
    LET hits == {i \in DOMAIN ps : /\ ps[i].vehicle_reg = vehicle_reg
                                   /\ ps[i].toll_id = toll_id
                                   /\ ps[i].status = "active"}
    IN  IF hits = {} THEN 0
        ELSE CHOOSE i \in hits : \A j \in hits : i <= j

\* update_pass that leaves the status column as it was.
update_pass_keeps_status(ps, toll_pass) ==
    [i \in DOMAIN ps |->
        IF ps[i].pass_id = toll_pass.pass_id
        THEN [ps[i] EXCEPT !.vehicle_reg = toll_pass.vehicle_reg,
                           !.toll_id = toll_pass.toll_id,
                           !.uses_remaining = toll_pass.uses_remaining,
                           !.first_used_at = toll_pass.first_used_at,
                           !.valid_until = toll_pass.valid_until]
        ELSE ps[i]]

\* update_pass that selects the rows to write by vehicle instead of pass_id.
update_pass_by_vehicle(ps, toll_pass) ==
    [i \in DOMAIN ps |->
        IF ps[i].vehicle_reg = toll_pass.vehicle_reg
        THEN [ps[i] EXCEPT !.toll_id = toll_pass.toll_id,
                           !.status = toll_pass.status,
                           !.uses_remaining = toll_pass.uses_remaining,
                           !.first_used_at = toll_pass.first_used_at,
                           !.valid_until = toll_pass.valid_until]
        ELSE ps[i]]

\* PassRepository.update_pass: writes the mutable columns of the row that
\* has the pass's pass_id.
update_pass(ps, toll_pass) ==
    [i \in DOMAIN ps |->
        IF ps[i].pass_id = toll_pass.pass_id
        THEN [ps[i] EXCEPT !.vehicle_reg = toll_pass.vehicle_reg,
                           !.toll_id = toll_pass.toll_id,
                           !.status = toll_pass.status,
                           !.uses_remaining = toll_pass.uses_remaining,
                           !.first_used_at = toll_pass.first_used_at,
                           !.valid_until = toll_pass.valid_until]
        ELSE ps[i]]

\* ------------------------------------------------------------------------
\* Initial state: the tables right after start-up, no pass sold yet
\* ------------------------------------------------------------------------
InitSys ==
    /\ now = 0
    /\ ticks = 0
    /\ passes = <<>>
    /\ transactions = <<>>
    /\ booths = [k \in BoothKeys |-> [vehicles_processed |-> 0,
                                      total_charges_collected |-> 0]]
    /\ next_pass_id = 1
    /\ next_transaction_id = 1
    /\ last = NoOutcome

Init ==
    /\ InitSys
    /\ ev_pass = NoPass
    /\ ev_now = 0
    /\ ev_out = NoValidation
    /\ ev_status = "n/a"
    /\ ev_again = NoValidation
    /\ response = NoResponse
    /\ reqs = [r \in Requests |-> IdleRequest]
    /\ started = 0

\* ------------------------------------------------------------------------
\* The clock
\* ------------------------------------------------------------------------
CanDrift(d) == d = 0 \/ ticks < MaxTicks

Tick ==
    /\ ticks < MaxTicks
    /\ \E d \in TickSteps : now' = now + d
    /\ ticks' = ticks + 1
    /\ last' = NoOutcome
    /\ UNCHANGED <<passes, transactions, booths, next_pass_id,
                   next_transaction_id, evvars, reqvars>>

\* ------------------------------------------------------------------------
\* TollManagementSystem.purchase_pass
\* ------------------------------------------------------------------------
\* PurchaseFails that has drawn a pass id before raising.
PurchaseFails_consuming_id(vehicle_reg, toll_id, booth_id, message, existing) ==
    /\ last' = Outcome("purchase", vehicle_reg, toll_id, booth_id, FALSE,
                       message, existing, existing, NoValidation, now, now, NoOptions,
                       TRUE)
    /\ next_pass_id' = next_pass_id + 1
    /\ UNCHANGED <<now, ticks, passes, transactions, booths,
                   next_transaction_id>>

\* PurchaseFails that writes a record of the failed purchase.
PurchaseFails_logged(vehicle_reg, toll_id, booth_id, message, existing) ==
    /\ last' = Outcome("purchase", vehicle_reg, toll_id, booth_id, FALSE,
                       message, existing, existing, NoValidation, now, now, NoOptions,
                       TRUE)
    /\ transactions' = Append(transactions,
                              Transaction(next_transaction_id, booth_id, toll_id,
                                          vehicle_reg, vehicle_type_of(vehicle_reg),
                                          "PURCHASE", 0, 0, now))
    /\ UNCHANGED <<now, ticks, passes, booths, next_pass_id,
                   next_transaction_id>>

\* A purchase that raises ValueError: nothing is stored.
PurchaseFails(vehicle_reg, toll_id, booth_id, message, existing) ==
    /\ last' = Outcome("purchase", vehicle_reg, toll_id, booth_id, FALSE,
                       message, existing, existing, NoValidation, now, now, NoOptions,
                       TRUE)
    /\ UNCHANGED <<now, ticks, passes, transactions, booths, next_pass_id,
                   next_transaction_id>>

\* drift: the clock advance between the reading for purchased_at and the
\* reading for the transaction's timestamp.
purchase_pass(vehicle_reg, toll_id, booth_id, pass_type, drift) ==
    /\ UNCHANGED evvars
    /\ IF ~vehicle_exists(vehicle_reg)
       THEN PurchaseFails(vehicle_reg, toll_id, booth_id, "vehicle not registered", NoPass)
       ELSE IF ~toll_exists(toll_id)
       THEN PurchaseFails(vehicle_reg, toll_id, booth_id, "toll not found", NoPass)
       ELSE IF booth_id \notin toll_booths(toll_id)
       THEN PurchaseFails(vehicle_reg, toll_id, booth_id, "booth not found", NoPass)
       ELSE IF find_active_pass(passes, vehicle_reg, toll_id) # 0
       THEN PurchaseFails(vehicle_reg, toll_id, booth_id, "already has an active pass",
                          passes[find_active_pass(passes, vehicle_reg, toll_id)])
       ELSE
         LET vehicle_type == vehicle_type_of(vehicle_reg)
             price == get_pass_price(vehicle_type, pass_type)
             uses == get_pass_uses(pass_type)
             pass_id == next_pass_id
             new_pass == TollPass(pass_id, vehicle_reg, toll_id, pass_type,
                                  vehicle_type, price, now, NULL, NULL, uses, "active")
             txn_id == next_transaction_id
             transaction == Transaction(txn_id, booth_id, toll_id, vehicle_reg,
                                        vehicle_type, "PURCHASE", pass_id, price,
                                        now + drift)
         IN  /\ Len(passes) < MaxPasses
             /\ Len(transactions) < MaxTxns
             /\ CanDrift(drift)
             /\ next_pass_id' = next_pass_id + 1
             /\ passes' = Append(passes, new_pass)
             /\ next_transaction_id' = next_transaction_id + 1
             /\ transactions' = Append(transactions, transaction)
             /\ booths' = [booths EXCEPT ![<<toll_id, booth_id>>].total_charges_collected
                                             = @ + price]
             /\ now' = now + drift
             /\ ticks' = IF drift = 0 THEN ticks ELSE ticks + 1
             /\ last' = Outcome("purchase", vehicle_reg, toll_id, booth_id, TRUE,
                                "purchased", NoPass, new_pass, NoValidation,
                                now, now + drift, NoOptions, FALSE)

PurchasePass ==
    \E call \in CallInputs, pass_type \in PassType, drift \in Drift :
        /\ purchase_pass(call[1], call[2], call[3], pass_type, drift)
        /\ UNCHANGED reqvars

\* ------------------------------------------------------------------------
\* TollManagementSystem.process_vehicle
\* ------------------------------------------------------------------------
\* A refusal that writes a DENIED record to the transactions table.
ProcessRefused_logged(vehicle_reg, toll_id, booth_id, message, pass_options) ==
    /\ last' = Outcome("process", vehicle_reg, toll_id, booth_id, FALSE,
                       message, NoPass, NoPass, NoValidation, now, now, pass_options,
                       FALSE)
    /\ transactions' = Append(transactions,
                              Transaction(next_transaction_id, booth_id, toll_id,
                                          vehicle_reg, vehicle_type_of(vehicle_reg),
                                          "DENIED", 0, 0, now))
    /\ next_transaction_id' = next_transaction_id + 1
    /\ UNCHANGED <<now, ticks, passes, booths, next_pass_id>>

\* A refusal that counts the vehicle at the booth.
ProcessRefused_counted(vehicle_reg, toll_id, booth_id, message, pass_options) ==
    /\ last' = Outcome("process", vehicle_reg, toll_id, booth_id, FALSE,
                       message, NoPass, NoPass, NoValidation, now, now, pass_options,
                       FALSE)
    /\ booths' = [k \in BoothKeys |->
                    IF k = <<toll_id, booth_id>>
                    THEN [booths[k] EXCEPT !.vehicles_processed = @ + 1]
                    ELSE booths[k]]
    /\ UNCHANGED <<now, ticks, passes, transactions, next_pass_id,
                   next_transaction_id>>

\* A passage refused before any pass is looked at: nothing is stored.
ProcessRefused(vehicle_reg, toll_id, booth_id, message, pass_options) ==
    /\ last' = Outcome("process", vehicle_reg, toll_id, booth_id, FALSE,
                       message, NoPass, NoPass, NoValidation, now, now, pass_options,
                       FALSE)
    /\ UNCHANGED <<now, ticks, passes, transactions, booths, next_pass_id,
                   next_transaction_id>>

\* prepared_pass that anchors the window on every valid use, not only on
\* the first.
prepared_pass_reanchor(toll_pass, validation_result, current_time) ==
    IF validation_result.is_first_use \/ validation_result.is_valid
    THEN set_first_use(toll_pass, current_time)
    ELSE update_pass_status(toll_pass, validation_result.is_time_valid,
                            validation_result.has_uses_remaining)

\* prepared_pass that recomputes no status.
prepared_pass_skips_status(toll_pass, validation_result, current_time) ==
    IF validation_result.is_first_use
    THEN set_first_use(toll_pass, current_time)
    ELSE toll_pass

\* prepared_pass that takes a use from a pass it finds not usable.
prepared_pass_charging_denied(toll_pass, validation_result, current_time) ==
    LET prepared ==
            IF validation_result.is_first_use
            THEN set_first_use(toll_pass, current_time)
            ELSE update_pass_status(toll_pass, validation_result.is_time_valid,
                                    validation_result.has_uses_remaining)
    IN  IF validation_result.is_valid
        THEN prepared
        ELSE [prepared EXCEPT !.uses_remaining = @ - 1]

\* The pass as process_vehicle leaves it before the validity decision:
\* anchored on a first use, status recomputed otherwise.
prepared_pass(toll_pass, validation_result, current_time) ==
    IF validation_result.is_first_use
    THEN set_first_use(toll_pass, current_time)
    ELSE update_pass_status(toll_pass, validation_result.is_time_valid,
                            validation_result.has_uses_remaining)

\* drift: the clock advance between process_vehicle's reading
\* (current_time) and validate_pass's own reading.
process_vehicle(vehicle_reg, toll_id, booth_id, drift) ==
    /\ UNCHANGED evvars
    /\ IF ~vehicle_exists(vehicle_reg)
       THEN ProcessRefused(vehicle_reg, toll_id, booth_id, "vehicle not registered", NoOptions)
       ELSE IF ~toll_exists(toll_id)
       THEN ProcessRefused(vehicle_reg, toll_id, booth_id, "toll not found", NoOptions)
       ELSE IF booth_id \notin toll_booths(toll_id)
       THEN ProcessRefused(vehicle_reg, toll_id, booth_id, "booth not found", NoOptions)
       ELSE IF find_active_pass(passes, vehicle_reg, toll_id) = 0
       THEN ProcessRefused(vehicle_reg, toll_id, booth_id, "no valid pass found",
                           display_pass_options(vehicle_type_of(vehicle_reg)))
       ELSE
         LET toll_pass == passes[find_active_pass(passes, vehicle_reg, toll_id)]
             current_time == now
             eval_time == now + drift
             validation_result == validate_pass(toll_pass, eval_time)
             prepared == prepared_pass(toll_pass, validation_result, current_time)
         IN  /\ CanDrift(drift)
             /\ now' = eval_time
             /\ ticks' = IF drift = 0 THEN ticks ELSE ticks + 1
             /\ IF ~validation_result.is_valid
                THEN /\ passes' = update_pass(passes, prepared)
                     /\ last' = Outcome("process", vehicle_reg, toll_id, booth_id,
                                        FALSE, "pass is invalid", toll_pass, prepared,
                                        validation_result, current_time, eval_time,
                                        display_pass_options(vehicle_type_of(vehicle_reg)),
                                        FALSE)
                     /\ UNCHANGED <<transactions, booths, next_pass_id,
                                    next_transaction_id>>
                ELSE LET used == use_pass(prepared)
                         txn_id == next_transaction_id
                         transaction == Transaction(txn_id, booth_id, toll_id,
                                            vehicle_reg, vehicle_type_of(vehicle_reg),
                                            "PASSAGE", toll_pass.pass_id, 0, current_time)
                     IN  /\ Len(transactions) < MaxTxns
                         /\ passes' = update_pass(passes, used)
                         /\ next_transaction_id' = next_transaction_id + 1
                         /\ transactions' = Append(transactions, transaction)
                         /\ booths' = [booths EXCEPT
                                         ![<<toll_id, booth_id>>].vehicles_processed = @ + 1]
                         /\ last' = Outcome("process", vehicle_reg, toll_id, booth_id,
                                            TRUE, "passage allowed", toll_pass, used,
                                            validation_result, current_time, eval_time,
                                            NoOptions, FALSE)
                         /\ UNCHANGED next_pass_id

ProcessVehicle ==
    \E call \in CallInputs, drift \in Drift :
        /\ process_vehicle(call[1], call[2], call[3], drift)
        /\ UNCHANGED reqvars

\* ------------------------------------------------------------------------
\* Specification of the system
\* ------------------------------------------------------------------------
Next == Tick \/ PurchasePass \/ ProcessVehicle

Spec == Init /\ [][Next]_vars

\* ------------------------------------------------------------------------
\* The controllers: the handlers behind POST /api/pass/purchase and
\* POST /api/vehicle/process, which check their inputs, call the system
\* and turn its return value or exception into a response dict.
\* ------------------------------------------------------------------------
\* Requests offered to the controllers, <<vehicle_reg, toll_id, booth_id>>:
\* a registered vehicle at a booth of a toll, then an unregistered vehicle,
\* an unknown toll, a booth that is not at the toll, and an empty
\* registration number.
ApiInputs ==
    {<<"MH-12-AB-1234", "T1", "B1">>,
     <<"XX-00-XX-0000", "T1", "B1">>,
     <<"MH-12-AB-1234", "T9", "B1">>,
     <<"MH-12-AB-1234", "T1", "B9">>,
     <<"", "T1", "B1">>}

\* pass_type strings offered to the purchase endpoint.
ApiPassTypes == PassType \cup {"monthly"}

\* The request never reaches the system: 400 from the input checks.
BadRequest ==
    /\ response' = Response("error", 400, "n/a")
    /\ last' = NoOutcome
    /\ UNCHANGED <<now, ticks, passes, transactions, booths, next_pass_id,
                   next_transaction_id, evvars, reqs, started>>

PassController_purchase_pass ==
    \E call \in ApiInputs, pass_type \in ApiPassTypes, drift \in Drift :
        IF call[1] = "" \/ call[2] = "" \/ call[3] = ""
        THEN BadRequest
        ELSE IF pass_type \notin PassType
        THEN BadRequest
        ELSE /\ purchase_pass(call[1], call[2], call[3], pass_type, drift)
             /\ response' = IF last'.raised
                             THEN Response("error", 400, "n/a")
                             ELSE Response("success", 201, "n/a")
             /\ UNCHANGED <<reqs, started>>

VehicleController_process_vehicle_passage ==
    \E call \in ApiInputs, drift \in Drift :
        IF call[1] = "" \/ call[2] = "" \/ call[3] = ""
        THEN BadRequest
        ELSE /\ process_vehicle(call[1], call[2], call[3], drift)
             /\ response' = IF last'.raised
                             THEN Response("error", 404, "n/a")
                             ELSE IF last'.ok
                             THEN Response("success", 200, "true")
                             ELSE Response("success", 200, "false")
             /\ UNCHANGED <<reqs, started>>

NextApi ==
    \/ Tick
    \/ PassController_purchase_pass
    \/ VehicleController_process_vehicle_passage

SpecApi == Init /\ [][NextApi]_vars

\* ------------------------------------------------------------------------
\* Requests served at the same time.  The endpoints are plain functions,
\* which the server runs on worker threads; get_system builds a
\* TollManagementSystem with a session of its own for every request.  The
\* session has no isolation level set and every repository write commits,
\* so a request's reads up to its first write come from the snapshot its
\* first query (the counts in __init__) opened, and every write is a
\* transaction of its own.  A request therefore takes one step for
\* everything it reads before its first write and one step per write.
\* The clock advances between steps (Tick) and while a handler reads it
\* (drift).
\* ------------------------------------------------------------------------
\* Requests offered at the same time: one vehicle at one booth.
ConcInputs == {<<"MH-12-AB-1234", "T1", "B1">>}

\* A new request takes the first free slot.
FreeSlot(r) ==
    /\ reqs[r].pc = "idle"
    /\ \A q \in Requests : q < r => reqs[q].pc # "idle"

\* The request in slot r returns: the slot is free again.
Respond(r, status, code, allowed) ==
    /\ response' = Response(status, code, allowed)
    /\ reqs' = [reqs EXCEPT ![r] = IdleRequest]

\* A toll_passes table without the unique index on pass_id: no insert is
\* ever rejected.
pass_id_taken_never(pass_id) == FALSE

\* The db row with this pass_id / transaction_id exists: the unique index
\* rejects a second insert.
pass_id_taken(pass_id) == \E i \in DOMAIN passes : passes[i].pass_id = pass_id

transaction_id_taken(transaction_id) ==
    \E i \in DOMAIN transactions : transactions[i].transaction_id = transaction_id

\* get_system and the handler up to its first write, for a purchase: the
\* instance seeds its counters from the row counts, then runs the checks of
\* purchase_pass and loads the toll with its booths.
BeginPurchase ==
    \E r \in Requests, call \in ConcInputs, pass_type \in PassType :
        /\ FreeSlot(r)
        /\ started < MaxStarted
        /\ started' = started + 1
        /\ IF find_active_pass(passes, call[1], call[2]) # 0
           THEN Respond(r, "error", 400, "n/a")
           ELSE /\ reqs' = [reqs EXCEPT ![r] =
                              Request("add_pass", "purchase", call[1], call[2], call[3],
                                      pass_type, Len(passes) + 1, Len(transactions) + 1,
                                      NoPass, booths[<<call[2], call[3]>>], 0)]
                /\ UNCHANGED response
        /\ UNCHANGED <<sysvars, evvars>>

\* purchase_pass: price, _generate_pass_id, TollPass(...), add_pass.
AddPass ==
    \E r \in Requests :
        LET req == reqs[r]
            vehicle_type == vehicle_type_of(req.vehicle_reg)
            new_pass == TollPass(req.next_pass_id, req.vehicle_reg, req.toll_id,
                                 req.pass_type, vehicle_type,
                                 get_pass_price(vehicle_type, req.pass_type),
                                 now, NULL, NULL, get_pass_uses(req.pass_type),
                                 "active")
        IN  /\ req.pc = "add_pass"
            /\ IF pass_id_taken(new_pass.pass_id)
               THEN /\ Respond(r, "error", 500, "n/a")
                    /\ UNCHANGED passes
               ELSE /\ Len(passes) < MaxPasses
                    /\ passes' = Append(passes, new_pass)
                    /\ reqs' = [reqs EXCEPT ![r].pc = "add_transaction",
                                            ![r].next_pass_id = @ + 1,
                                            ![r].toll_pass = new_pass]
                    /\ UNCHANGED response
            /\ UNCHANGED <<now, ticks, transactions, booths, next_pass_id,
                           next_transaction_id, last, evvars, started>>

\* get_system and the handler up to its first write, for a passage: the
\* instance seeds its counters, then process_vehicle runs its checks, loads
\* the toll with its booths and looks for the active pass.
BeginProcess ==
    \E r \in Requests, call \in ConcInputs :
        /\ FreeSlot(r)
        /\ started < MaxStarted
        /\ started' = started + 1
        /\ IF find_active_pass(passes, call[1], call[2]) = 0
           THEN Respond(r, "success", 200, "false")
           ELSE /\ reqs' = [reqs EXCEPT ![r] =
                              Request("prepare", "process", call[1], call[2], call[3],
                                      "single", Len(passes) + 1, Len(transactions) + 1,
                                      passes[find_active_pass(passes, call[1], call[2])],
                                      booths[<<call[2], call[3]>>], 0)]
                /\ UNCHANGED response
        /\ UNCHANGED <<sysvars, evvars>>

\* process_vehicle: datetime.now(), validate_pass, set_first_use or
\* update_pass_status on the pass object the request holds, update_pass,
\* and the denial if the pass is not valid.
PreparePass ==
    \E r \in Requests, drift \in Drift :
        LET req == reqs[r]
            current_time == now
            eval_time == now + drift
            validation_result == validate_pass(req.toll_pass, eval_time)
            prepared == prepared_pass(req.toll_pass, validation_result, current_time)
        IN  /\ req.pc = "prepare"
            /\ CanDrift(drift)
            /\ now' = eval_time
            /\ ticks' = IF drift = 0 THEN ticks ELSE ticks + 1
            /\ passes' = update_pass(passes, prepared)
            /\ IF ~validation_result.is_valid
               THEN Respond(r, "success", 200, "false")
               ELSE /\ reqs' = [reqs EXCEPT ![r].pc = "use_pass",
                                            ![r].toll_pass = prepared,
                                            ![r].current_time = current_time]
                    /\ UNCHANGED response
            /\ UNCHANGED <<transactions, booths, next_pass_id,
                           next_transaction_id, last, evvars, started>>

\* process_vehicle: use_pass on the pass object the request holds, update_pass.
UsePass ==
    \E r \in Requests :
        LET req == reqs[r]
            used == use_pass(req.toll_pass)
        IN  /\ req.pc = "use_pass"
            /\ passes' = update_pass(passes, used)
            /\ reqs' = [reqs EXCEPT ![r].pc = "add_transaction",
                                    ![r].toll_pass = used]
            /\ UNCHANGED <<now, ticks, transactions, booths, next_pass_id,
                           next_transaction_id, last, evvars, response, started>>

\* Either operation: _generate_transaction_id, Transaction(...),
\* add_transaction.  An id that is taken fails the insert, and the
\* exception leaves the handler through the controller's except Exception.
AddTransaction ==
    \E r \in Requests :
        LET req == reqs[r]
            purchase == req.op = "purchase"
            transaction == Transaction(req.next_transaction_id, req.booth_id,
                                       req.toll_id, req.vehicle_reg,
                                       vehicle_type_of(req.vehicle_reg),
                                       IF purchase THEN "PURCHASE" ELSE "PASSAGE",
                                       req.toll_pass.pass_id,
                                       IF purchase THEN req.toll_pass.price ELSE 0,
                                       IF purchase THEN now ELSE req.current_time)
        IN  /\ req.pc = "add_transaction"
            /\ IF transaction_id_taken(transaction.transaction_id)
               THEN /\ Respond(r, "error", 500, "n/a")
                    /\ UNCHANGED transactions
               ELSE /\ Len(transactions) < MaxTxns
                    /\ transactions' = Append(transactions, transaction)
                    /\ reqs' = [reqs EXCEPT ![r].pc = "update_booth",
                                            ![r].next_transaction_id = @ + 1]
                    /\ UNCHANGED response
            /\ UNCHANGED <<now, ticks, passes, booths, next_pass_id,
                           next_transaction_id, last, evvars, started>>

\* Either operation: the counter of the booth object the request holds is
\* increased and update_booth writes the object's counters to the row.
UpdateBooth ==
    \E r \in Requests :
        LET req == reqs[r]
            purchase == req.op = "purchase"
            booth == IF purchase
                     THEN [req.booth EXCEPT !.total_charges_collected
                                               = @ + req.toll_pass.price]
                     ELSE [req.booth EXCEPT !.vehicles_processed = @ + 1]
        IN  /\ req.pc = "update_booth"
            /\ booths' = [booths EXCEPT ![<<req.toll_id, req.booth_id>>] = booth]
            /\ IF purchase
               THEN Respond(r, "success", 201, "n/a")
               ELSE Respond(r, "success", 200, "true")
            /\ UNCHANGED <<now, ticks, passes, transactions, next_pass_id,
                           next_transaction_id, last, evvars, started>>

NextConc ==
    \/ Tick
    \/ BeginPurchase
    \/ AddPass
    \/ BeginProcess
    \/ PreparePass
    \/ UsePass
    \/ AddTransaction
    \/ UpdateBooth

SpecConc == Init /\ [][NextConc]_vars

\* ------------------------------------------------------------------------
\* The validation service on its own: validate_pass applied to a stored
\* pass snapshot at an instant, then determine_pass_status applied to the
\* two checks of the result.
\* ------------------------------------------------------------------------
\* The uses a pass of this type can have left after k passages.
UsesAfter(pass_type, k) == get_pass_uses(pass_type) - k

\* The numbers of passages a used pass of this type can have behind it: a
\* few, or all but one, or all of the uses the type is sold with.
UsedCounts(pass_type) ==
    {k \in (1..EvalMaxUsed) \cup {get_pass_uses(pass_type) - 1, get_pass_uses(pass_type)} :
        k >= 1 /\ UsesAfter(pass_type, k) >= 0}

\* Snapshots a stored pass can be in: never used (as purchase_pass creates
\* it), or anchored at first_used_at with at least one use consumed.
NeverUsedPasses ==
    {TollPass(1, "MH-12-AB-1234", "T1", pt, "two_wheeler",
              get_pass_price("two_wheeler", pt), 0, NULL, NULL,
              get_pass_uses(pt), "active") : pt \in PassType}

UsedPasses ==
    {TollPass(1, "MH-12-AB-1234", "T1", x[1], "two_wheeler",
              get_pass_price("two_wheeler", x[1]), 0, x[2],
              x[2] + get_pass_duration(x[1]), UsesAfter(x[1], x[3]),
              IF UsesAfter(x[1], x[3]) = 0 THEN "exhausted" ELSE x[4]) :
        x \in UNION {{pt} \X (0..EvalMaxStart) \X UsedCounts(pt)
                           \X {"active", "expired"} : pt \in PassType}}

EvalPasses == NeverUsedPasses \cup UsedPasses

InitEval ==
    /\ InitSys
    /\ ev_pass \in EvalPasses
    /\ ev_now \in 0..EvalMaxTime
    /\ ev_pass.first_used_at # NULL => ev_now >= ev_pass.first_used_at
    /\ ev_out = NoValidation
    /\ ev_status = "n/a"
    /\ ev_again = NoValidation
    /\ response = NoResponse
    /\ reqs = [r \in Requests |-> IdleRequest]
    /\ started = 0

Evaluate ==
    /\ ev_out = NoValidation
    /\ ev_out' = validate_pass(ev_pass, ev_now)
    /\ ev_pass' = validated_pass(ev_pass, ev_now)
    /\ UNCHANGED <<sysvars, reqvars, ev_now, ev_status, ev_again>>

\* A second validate_pass on the same pass object at the same instant.
EvaluateAgain ==
    /\ ev_out # NoValidation
    /\ ev_again = NoValidation
    /\ ev_again' = validate_pass(ev_pass, ev_now)
    /\ ev_pass' = validated_pass(ev_pass, ev_now)
    /\ UNCHANGED <<sysvars, reqvars, ev_now, ev_out, ev_status>>

DetermineStatus ==
    /\ ev_out # NoValidation
    /\ ev_status = "n/a"
    /\ ev_status' = determine_pass_status(ev_out.is_time_valid,
                                          ev_out.has_uses_remaining)
    /\ UNCHANGED <<sysvars, reqvars, ev_pass, ev_now, ev_out, ev_again>>

NextEval == Evaluate \/ EvaluateAgain \/ DetermineStatus

SpecEval == InitEval /\ [][NextEval]_vars

\* ========================================================================
\* Properties
\* ========================================================================
Dur(toll_pass) == get_pass_duration(toll_pass.pass_type)

\* The latest call was a process_vehicle that found a pass.
ProcessedPass == last.op = "process" /\ last.pre # NoPass

\* The stored row of the pass the latest call looked at.
LastPass ==
    passes[CHOOSE i \in DOMAIN passes : passes[i].pass_id = last.pre.pass_id]

\* ------------------------------------------------------------------------
\* C1. First-use anchoring: when an allowed process_vehicle at instant T1
\* uses for the first time a pass purchased at T0, the pass gets
\* first_used_at = T1 and valid_until = T1 + duration(pass class); for
\* T1 > T0, valid_until is not T0 + duration(pass class).  The anchor stays
\* that way for every stored pass.
\* ------------------------------------------------------------------------
C1_FirstUseAnchoring ==
    /\ (ProcessedPass /\ last.ok /\ last.validation.is_first_use) =>
          /\ last.pre.first_used_at = NULL
          /\ LastPass.first_used_at = last.current_time
          /\ LastPass.valid_until = last.current_time + Dur(LastPass)
    /\ \A i \in DOMAIN passes :
          (passes[i].first_used_at # NULL
              /\ passes[i].first_used_at > passes[i].purchased_at) =>
             /\ passes[i].valid_until = passes[i].first_used_at + Dur(passes[i])
             /\ passes[i].valid_until # passes[i].purchased_at + Dur(passes[i])

C1_Witness ==
    /\ ProcessedPass /\ last.ok /\ last.validation.is_first_use
    /\ last.current_time > last.pre.purchased_at
    /\ LastPass.valid_until = last.current_time + Dur(LastPass)

\* ------------------------------------------------------------------------
\* C2. A never-used pass does not lose validity while it waits: whatever
\* time has passed since the purchase, a process_vehicle that finds a pass
\* with first_used_at = null and uses_remaining > 0 is allowed.
\* ------------------------------------------------------------------------
C2_NeverUsedIsAllowed ==
    (ProcessedPass /\ last.pre.first_used_at = NULL /\ last.pre.uses_remaining > 0)
        => last.ok

C2_Witness ==
    /\ ProcessedPass /\ last.pre.first_used_at = NULL /\ last.ok
    /\ last.current_time - last.pre.purchased_at > Dur(last.pre)

\* ------------------------------------------------------------------------
\* C3. Every stored pass has valid_until non-null if and only if
\* first_used_at is non-null.
\* ------------------------------------------------------------------------
C3_ValidUntilIffFirstUsed ==
    \A i \in DOMAIN passes :
        (passes[i].valid_until # NULL) <=> (passes[i].first_used_at # NULL)

C3_Witness ==
    \E i, j \in DOMAIN passes :
        /\ passes[i].first_used_at # NULL /\ passes[i].valid_until # NULL
        /\ passes[j].first_used_at = NULL /\ passes[j].valid_until = NULL

\* ------------------------------------------------------------------------
\* C4. Once first_used_at and valid_until of a pass are set, no later step
\* (purchase, passage allowed or denied, clock advance) changes either, and
\* valid_until = first_used_at + duration(pass class) keeps holding.
\* ------------------------------------------------------------------------
C4_AnchorNeverRecomputed ==
    [][\A i \in DOMAIN passes :
          passes[i].first_used_at # NULL =>
             /\ passes'[i].first_used_at = passes[i].first_used_at
             /\ passes'[i].valid_until = passes[i].valid_until
             /\ passes'[i].valid_until = passes'[i].first_used_at + Dur(passes'[i])]_vars

C4_Witness ==
    /\ ProcessedPass /\ last.ok
    /\ last.pre.first_used_at # NULL
    /\ last.current_time > last.pre.first_used_at
    /\ LastPass.valid_until = last.pre.first_used_at + Dur(LastPass)

\* ------------------------------------------------------------------------
\* C5. uses_remaining of a pass starts at max-uses(pass class), never
\* increases from one state to the next and is never below 0.
\* ------------------------------------------------------------------------
C5_UsesNonIncreasing ==
    [][\A i \in DOMAIN passes' :
          /\ passes'[i].uses_remaining >= 0
          /\ IF i \in DOMAIN passes
             THEN passes'[i].uses_remaining <= passes[i].uses_remaining
             ELSE passes'[i].uses_remaining = get_pass_uses(passes'[i].pass_type)]_vars

C5_Witness ==
    /\ ProcessedPass /\ last.ok
    /\ LastPass.uses_remaining = 0
    /\ last.pre.uses_remaining = 1
    /\ get_pass_uses(LastPass.pass_type) = 2

\* ------------------------------------------------------------------------
\* C6. A stored pass has status EXHAUSTED if and only if its uses_remaining
\* is 0, whatever the clock shows relative to valid_until.
\* ------------------------------------------------------------------------
C6_ExhaustedIffNoUses ==
    \A i \in DOMAIN passes :
        (passes[i].status = "exhausted") <=> (passes[i].uses_remaining = 0)

C6_Witness ==
    \E i \in DOMAIN passes :
        /\ passes[i].status = "exhausted"
        /\ passes[i].uses_remaining = 0
        /\ now >= passes[i].valid_until

\* ------------------------------------------------------------------------
\* C7 as stated. At every instant, a pass has status EXPIRED if and only if
\* uses_remaining > 0, first_used_at is set and the clock is at or past
\* valid_until; a pass that is neither exhausted nor expired by these
\* conditions has status ACTIVE.
\* ------------------------------------------------------------------------
ExpiredByClock(toll_pass, instant) ==
    /\ toll_pass.uses_remaining > 0
    /\ toll_pass.first_used_at # NULL
    /\ instant >= toll_pass.valid_until

C7_StatusFollowsClock ==
    \A i \in DOMAIN passes :
        /\ (passes[i].status = "expired") <=> ExpiredByClock(passes[i], now)
        /\ (passes[i].uses_remaining > 0 /\ ~ExpiredByClock(passes[i], now))
              => passes[i].status = "active"

\* ------------------------------------------------------------------------
\* C7 as amended. The stored status is recomputed only when process_vehicle
\* evaluates the pass.  A pass with status EXPIRED has uses_remaining > 0,
\* first_used_at set and the clock at or past valid_until; right after a
\* process_vehicle evaluated an already-used pass, its status is EXPIRED if
\* and only if it has uses left and the evaluation instant was at or past
\* valid_until; a pass that is neither exhausted nor expired by these
\* conditions has status ACTIVE.  A pass whose valid_until passes without an
\* evaluation keeps status ACTIVE.
\* ------------------------------------------------------------------------
C7_StatusAsOfEvaluation ==
    /\ \A i \in DOMAIN passes :
          /\ passes[i].status = "expired" => ExpiredByClock(passes[i], now)
          /\ (passes[i].uses_remaining > 0 /\ ~ExpiredByClock(passes[i], now))
                => passes[i].status = "active"
    /\ (ProcessedPass /\ last.pre.first_used_at # NULL) =>
          ((LastPass.status = "expired") <=> ExpiredByClock(LastPass, last.eval_time))

C7_Witness ==
    /\ ProcessedPass /\ ~last.ok
    /\ last.pre.status = "active"
    /\ LastPass.status = "expired"
    /\ last.eval_time >= LastPass.valid_until

\* ------------------------------------------------------------------------
\* C8. Strict boundary: a process_vehicle that evaluates an already-used
\* pass with uses_remaining > 0 is allowed exactly when the evaluation
\* instant is strictly before valid_until; at valid_until itself it is
\* denied with reason expired.
\* ------------------------------------------------------------------------
C8_StrictBoundary ==
    (ProcessedPass /\ last.pre.first_used_at # NULL /\ last.pre.uses_remaining > 0) =>
        /\ last.ok <=> last.eval_time < last.pre.valid_until
        /\ last.validation.is_valid = last.ok
        /\ ~last.ok => last.validation.reason = "expired"

C8_Witness ==
    /\ ProcessedPass /\ last.pre.first_used_at # NULL /\ last.pre.uses_remaining > 0
    /\ last.eval_time = last.pre.valid_until
    /\ ~last.ok
    /\ last.validation.reason = "expired"

\* ------------------------------------------------------------------------
\* C9. validate_pass on an already-used pass with uses_remaining = 0 at an
\* instant before valid_until returns not valid with reason exhausted.
\* ------------------------------------------------------------------------
C9_ExhaustedWhileTimeValid ==
    (/\ ev_out # NoValidation
     /\ ev_pass.first_used_at # NULL
     /\ ev_pass.uses_remaining = 0
     /\ ev_now < ev_pass.valid_until) =>
        /\ ~ev_out.is_valid
        /\ ev_out.reason = "exhausted"

C9_Witness ==
    /\ ev_out # NoValidation
    /\ ev_pass.first_used_at # NULL
    /\ ev_pass.uses_remaining = 0
    /\ ev_now < ev_pass.valid_until
    /\ ev_out.reason = "exhausted"

\* ------------------------------------------------------------------------
\* C10. Exhaustion takes priority over expiry: validate_pass on an
\* already-used pass with uses_remaining = 0 reports reason exhausted at
\* every instant, also at or past valid_until; reason expired is reported
\* only when uses_remaining > 0.  The status determine_pass_status derives
\* from the same two checks agrees with the reason.
\* ------------------------------------------------------------------------
C10_ExhaustionPriority ==
    (ev_out # NoValidation /\ ev_pass.first_used_at # NULL) =>
        /\ ev_pass.uses_remaining = 0 => ev_out.reason = "exhausted"
        /\ ev_out.reason = "expired" => ev_pass.uses_remaining > 0
        /\ (ev_status = "exhausted") => ev_out.reason = "exhausted"

PassesOf(vehicle_reg, toll_id) ==
    {i \in DOMAIN passes : /\ passes[i].vehicle_reg = vehicle_reg
                           /\ passes[i].toll_id = toll_id}

NewestPass(vehicle_reg, toll_id) ==
    passes[CHOOSE i \in PassesOf(vehicle_reg, toll_id) :
              \A j \in PassesOf(vehicle_reg, toll_id) :
                  passes[j].pass_id <= passes[i].pass_id]

\* The latest call was a process_vehicle for a vehicle that has bought a
\* pass at the toll.
ProcessedHolder ==
    /\ last.op = "process"
    /\ PassesOf(last.vehicle_reg, last.toll_id) # {}

\* The pass the vehicle of the latest call bought last at the toll.
HeldPass == NewestPass(last.vehicle_reg, last.toll_id)

\* ------------------------------------------------------------------------
\* C12. After the allowed passage that brought a pass's uses_remaining to
\* 0, a further process_vehicle for the same vehicle and toll, with no
\* purchase in between, returns allowed = false with reason exhausted.
\* ------------------------------------------------------------------------
C12_DeniedAsExhausted ==
    (/\ ProcessedHolder
     /\ HeldPass.uses_remaining = 0
     /\ ~(last.ok /\ last.pre.pass_id = HeldPass.pass_id)) =>
        /\ ~last.ok
        /\ last.validation.reason = "exhausted"

LastBooth == <<last.toll_id, last.booth_id>>

\* ------------------------------------------------------------------------
\* C14. Every allowed process_vehicle decrements the used pass's
\* uses_remaining by exactly 1; the pass's status after it is EXHAUSTED if
\* the result is 0 and ACTIVE otherwise, and the returned pass snapshot
\* carries the decremented uses_remaining and that status.
\* ------------------------------------------------------------------------
C14_AllowedPassageConsumesOne ==
    (ProcessedPass /\ last.ok) =>
        /\ LastPass.uses_remaining = last.pre.uses_remaining - 1
        /\ LastPass.status = IF LastPass.uses_remaining = 0
                             THEN "exhausted" ELSE "active"
        /\ last.post.pass_id = last.pre.pass_id
        /\ last.post.uses_remaining = LastPass.uses_remaining
        /\ last.post.status = LastPass.status

C14_Witness ==
    /\ ProcessedPass /\ last.ok
    /\ last.pre.uses_remaining = 2
    /\ last.post.uses_remaining = 1
    /\ last.post.status = "active"
    /\ \E j \in DOMAIN passes :
          passes[j].status = "exhausted" /\ passes[j].uses_remaining = 0

\* ------------------------------------------------------------------------
\* C15. An allowed process_vehicle at booth B appends exactly one audit
\* record, of type PASSAGE with amount 0 for the used pass, increases B's
\* vehicles_processed by exactly 1, and leaves B's total_charges_collected
\* and every other booth's counters unchanged.
\* ------------------------------------------------------------------------
C15_AllowedPassageEffects ==
    [][(last'.op = "process" /\ last'.ok) =>
          LET booth == <<last'.toll_id, last'.booth_id>>
              transaction == transactions'[Len(transactions')]
          IN  /\ Len(transactions') = Len(transactions) + 1
              /\ SubSeq(transactions', 1, Len(transactions)) = transactions
              /\ transaction.transaction_type = "PASSAGE"
              /\ transaction.amount = 0
              /\ transaction.pass_id = last'.pre.pass_id
              /\ transaction.vehicle_reg = last'.vehicle_reg
              /\ booths'[booth].vehicles_processed
                     = booths[booth].vehicles_processed + 1
              /\ booths'[booth].total_charges_collected
                     = booths[booth].total_charges_collected
              /\ \A other \in BoothKeys \ {booth} : booths'[other] = booths[other]]_vars

C15_Witness ==
    /\ last.op = "process" /\ last.ok
    /\ transactions[Len(transactions)].transaction_type = "PASSAGE"
    /\ transactions[Len(transactions)].amount = 0
    /\ booths[LastBooth].vehicles_processed = 2
    /\ booths[LastBooth].total_charges_collected > 0
    /\ \E other \in BoothKeys \ {LastBooth} :
          booths[other].total_charges_collected > 0

\* ------------------------------------------------------------------------
\* C16. A successful purchase_pass(vehicle, toll, booth, pass class) stores
\* one new pass with uses_remaining = max-uses(pass class), status ACTIVE,
\* first_used_at = null, valid_until = null and price = price(vehicle's
\* class, pass class); appends exactly one PURCHASE audit record whose
\* amount is that price; increases the booth's total_charges_collected by
\* that price; and leaves the booth's vehicles_processed unchanged.
\* ------------------------------------------------------------------------
C16_PurchaseEffects ==
    [][(last'.op = "purchase" /\ last'.ok) =>
          LET booth == <<last'.toll_id, last'.booth_id>>
              new_pass == passes'[Len(passes')]
              transaction == transactions'[Len(transactions')]
          IN  /\ Len(passes') = Len(passes) + 1
              /\ SubSeq(passes', 1, Len(passes)) = passes
              /\ new_pass = last'.post
              /\ new_pass.vehicle_reg = last'.vehicle_reg
              /\ new_pass.toll_id = last'.toll_id
              /\ new_pass.uses_remaining = get_pass_uses(new_pass.pass_type)
              /\ new_pass.status = "active"
              /\ new_pass.first_used_at = NULL
              /\ new_pass.valid_until = NULL
              /\ new_pass.price = get_pass_price(vehicle_type_of(last'.vehicle_reg),
                                                 new_pass.pass_type)
              /\ Len(transactions') = Len(transactions) + 1
              /\ SubSeq(transactions', 1, Len(transactions)) = transactions
              /\ transaction.transaction_type = "PURCHASE"
              /\ transaction.amount = new_pass.price
              /\ transaction.pass_id = new_pass.pass_id
              /\ booths'[booth].total_charges_collected
                     = booths[booth].total_charges_collected + new_pass.price
              /\ booths'[booth].vehicles_processed
                     = booths[booth].vehicles_processed]_vars

C16_Witness ==
    /\ last.op = "purchase" /\ last.ok
    /\ passes[Len(passes)] = last.post
    /\ last.post.first_used_at = NULL /\ last.post.valid_until = NULL
    /\ transactions[Len(transactions)].transaction_type = "PURCHASE"
    /\ transactions[Len(transactions)].amount = last.post.price
    /\ booths[LastBooth].total_charges_collected > last.post.price
    /\ booths[LastBooth].vehicles_processed = 1

\* The passes the vehicle of the latest purchase_pass call held at the toll
\* when the call was made.
PriorPasses ==
    {i \in PassesOf(last.vehicle_reg, last.toll_id) :
        ~(last.ok /\ passes[i].pass_id = last.post.pass_id)}

\* ------------------------------------------------------------------------
\* C17. At most one pass with status ACTIVE exists per (vehicle, toll) in
\* every reachable state: a purchase_pass fails only with the
\* duplicate-active-pass error, raised for an ACTIVE pass of the same
\* vehicle at the same toll, and then no pass is created; a purchase for a
\* vehicle with no pass at the toll succeeds whatever it holds at another
\* toll.
\* ------------------------------------------------------------------------
C17_OneActivePassPerVehicleToll ==
    /\ \A i, j \in DOMAIN passes :
          (/\ passes[i].vehicle_reg = passes[j].vehicle_reg
           /\ passes[i].toll_id = passes[j].toll_id
           /\ passes[i].status = "active"
           /\ passes[j].status = "active") => i = j
    /\ (last.op = "purchase" /\ ~last.ok) =>
          /\ last.message = "already has an active pass"
          /\ last.pre.vehicle_reg = last.vehicle_reg
          /\ last.pre.toll_id = last.toll_id
          /\ last.pre.status = "active"
          /\ LastPass = last.pre
    /\ (last.op = "purchase" /\ PriorPasses = {}) => last.ok

C17_Witness ==
    /\ last.op = "purchase" /\ ~last.ok
    /\ last.message = "already has an active pass"
    /\ \E i, j \in DOMAIN passes :
          /\ passes[i].vehicle_reg = last.vehicle_reg
          /\ passes[j].vehicle_reg = last.vehicle_reg
          /\ passes[i].toll_id # passes[j].toll_id
          /\ passes[i].status = "active"
          /\ passes[j].status = "active"

\* ------------------------------------------------------------------------
\* C18. The duplicate-active-pass check of purchase_pass decides on the
\* status evaluated as of now: when the vehicle's only pass at the toll has
\* uses_remaining > 0 and the instant of the call is at or past its
\* valid_until, purchase_pass succeeds, also when no passage attempt was
\* made since valid_until passed.
\* ------------------------------------------------------------------------
C18_DuplicateCheckAsOfNow ==
    (/\ last.op = "purchase"
     /\ Cardinality(PriorPasses) = 1
     /\ \A i \in PriorPasses : ExpiredByClock(passes[i], last.current_time)) =>
        last.ok

\* ------------------------------------------------------------------------
\* C19. When every pass the vehicle held at the toll is EXHAUSTED or
\* EXPIRED (stored status), a purchase_pass for that vehicle and toll
\* succeeds and its pass is the one held from then on; a process_vehicle
\* that finds a pass always finds the one bought last, never an older one.
\* ------------------------------------------------------------------------
C19_RenewalAfterExhaustedOrExpired ==
    /\ (/\ last.op = "purchase"
        /\ PriorPasses # {}
        /\ \A i \in PriorPasses : passes[i].status \in {"exhausted", "expired"}) =>
          /\ last.ok
          /\ HeldPass = last.post
    /\ ProcessedPass => last.pre.pass_id = HeldPass.pass_id

C19_Witness ==
    /\ ProcessedPass /\ last.ok
    /\ last.pre.first_used_at = NULL
    /\ \E i \in PassesOf(last.vehicle_reg, last.toll_id) :
          /\ passes[i].pass_id < last.pre.pass_id
          /\ passes[i].status = "expired"

\* ------------------------------------------------------------------------
\* C20. When process_vehicle finds no active pass for a known vehicle at a
\* known toll and booth, it returns allowed = false with the pricing
\* options of the vehicle's class (one per pass class) and no pass
\* snapshot, and changes nothing: no pass, no audit record, no booth
\* counter, no id counter.
\* ------------------------------------------------------------------------
C20_NoPassDenialChangesNothing ==
    [][(/\ last'.op = "process"
        /\ find_active_pass(passes, last'.vehicle_reg, last'.toll_id) = 0) =>
          /\ ~last'.ok
          /\ last'.pre = NoPass
          /\ last'.post = NoPass
          /\ {last'.pass_options[k].pass_type : k \in DOMAIN last'.pass_options}
                = PassType
          /\ Len(last'.pass_options) = Cardinality(PassType)
          /\ \A k \in DOMAIN last'.pass_options :
                last'.pass_options[k].price
                   = get_pass_price(vehicle_type_of(last'.vehicle_reg),
                                    last'.pass_options[k].pass_type)
          /\ passes' = passes
          /\ transactions' = transactions
          /\ booths' = booths
          /\ next_pass_id' = next_pass_id
          /\ next_transaction_id' = next_transaction_id]_vars

C20_Witness ==
    /\ last.op = "process" /\ ~last.ok
    /\ last.message = "no valid pass found"
    /\ last.pre = NoPass
    /\ last.vehicle_reg = "MH-14-CD-5678"
    /\ last.pass_options[1].price = 100
    /\ PassesOf(last.vehicle_reg, last.toll_id) # {}
    /\ Len(transactions) = 2

\* The stored row with a given pass_id, in a given table of passes.
get_pass(ps, pass_id) ==
    ps[CHOOSE i \in DOMAIN ps : ps[i].pass_id = pass_id]

\* The option list prices every pass class for the vehicle.
OptionsFor(pass_options, vehicle_reg) ==
    /\ {pass_options[k].pass_type : k \in DOMAIN pass_options} = PassType
    /\ \A k \in DOMAIN pass_options :
          pass_options[k].price
             = get_pass_price(vehicle_type_of(vehicle_reg), pass_options[k].pass_type)

\* ------------------------------------------------------------------------
\* C21. When process_vehicle finds a pass that evaluates as not usable, it
\* returns allowed = false with the pricing options and the pass snapshot
\* (id, class, status, valid_until, uses_remaining) as stored, persists the
\* recomputed status, leaves uses_remaining, first_used_at and valid_until
\* unchanged, appends no audit record and changes no booth counter.
\* ------------------------------------------------------------------------
C21_DeniedPassageEffects ==
    [][(last'.op = "process" /\ last'.pre # NoPass /\ ~last'.ok) =>
          LET before == get_pass(passes, last'.pre.pass_id)
              after == get_pass(passes', last'.pre.pass_id)
          IN  /\ before = last'.pre
              /\ OptionsFor(last'.pass_options, last'.vehicle_reg)
              /\ last'.post.pass_id = after.pass_id
              /\ last'.post.pass_type = after.pass_type
              /\ last'.post.status = after.status
              /\ last'.post.valid_until = after.valid_until
              /\ last'.post.uses_remaining = after.uses_remaining
              /\ after.status = IF before.uses_remaining = 0 THEN "exhausted"
                                ELSE IF last'.eval_time >= before.valid_until
                                     THEN "expired" ELSE "active"
              /\ after.uses_remaining = before.uses_remaining
              /\ after.first_used_at = before.first_used_at
              /\ after.valid_until = before.valid_until
              /\ Len(passes') = Len(passes)
              /\ transactions' = transactions
              /\ booths' = booths]_vars

C21_Witness ==
    /\ ProcessedPass /\ ~last.ok
    /\ last.pre.pass_type = "seven_day"
    /\ last.pre.status = "active"
    /\ last.post.status = "expired"
    /\ LastPass.status = "expired"
    /\ last.post.uses_remaining = last.pre.uses_remaining
    /\ last.pass_options # NoOptions
    /\ booths[LastBooth].vehicles_processed = 1

\* The three existence checks both operations start with.
KnownIds(vehicle_reg, toll_id, booth_id) ==
    /\ vehicle_exists(vehicle_reg)
    /\ toll_exists(toll_id)
    /\ booth_id \in toll_booths(toll_id)

\* The latest call was made with a vehicle, toll or booth that is unknown.
LastUnknown == ~KnownIds(last.vehicle_reg, last.toll_id, last.booth_id)

\* ------------------------------------------------------------------------
\* C22. process_vehicle called with an unregistered vehicle, an unknown
\* toll, or a booth that is not at the toll fails by raising, as
\* purchase_pass does, and the caller gets a not-found outcome (status
\* error, code 404), not a denial result with allowed = false.
\* ------------------------------------------------------------------------
C22_UnknownIdsAreNotFound ==
    (last.op = "process" /\ LastUnknown) =>
        /\ last.raised
        /\ response.status = "error"
        /\ response.code = 404
        /\ response.allowed = "n/a"

\* ------------------------------------------------------------------------
\* C23. purchase_pass raises exactly when the vehicle is not registered,
\* the toll does not exist, the booth is not at the toll, or a pass of the
\* vehicle at the toll is stored as ACTIVE; on every such failure no pass
\* is stored, no audit record appended, no booth counter changed and no
\* pass or transaction id consumed.
\* ------------------------------------------------------------------------
C23_FailedPurchaseChangesNothing ==
    [][last'.op = "purchase" =>
          LET vehicle_reg == last'.vehicle_reg
              toll_id == last'.toll_id
              duplicate == \E i \in DOMAIN passes :
                              /\ passes[i].vehicle_reg = vehicle_reg
                              /\ passes[i].toll_id = toll_id
                              /\ passes[i].status = "active"
              fails == ~KnownIds(vehicle_reg, toll_id, last'.booth_id) \/ duplicate
          IN  /\ last'.raised <=> fails
              /\ last'.ok <=> ~fails
              /\ fails =>
                    /\ response'.status = "error"
                    /\ passes' = passes
                    /\ transactions' = transactions
                    /\ booths' = booths
                    /\ next_pass_id' = next_pass_id
                    /\ next_transaction_id' = next_transaction_id]_vars

C23_Witness ==
    /\ last.op = "purchase" /\ last.raised
    /\ last.booth_id \notin toll_booths(last.toll_id)
    /\ response.code = 400
    /\ Len(passes) = 1 /\ next_pass_id = 2
    /\ Len(transactions) = 2 /\ next_transaction_id = 3
    /\ booths[<<"T1", "B1">>].total_charges_collected > 0

\* Audit records of a type, and of a type for a pass.
RecordsOfType(transaction_type) ==
    {i \in DOMAIN transactions : transactions[i].transaction_type = transaction_type}

PassagesOn(pass_id) ==
    {i \in RecordsOfType("PASSAGE") : transactions[i].pass_id = pass_id}

\* ------------------------------------------------------------------------
\* C24. The audit log is append-only and complete: no step modifies or
\* removes a record; a step appends exactly one record when it is a
\* successful purchase (type PURCHASE, amount = price) or an allowed
\* passage (type PASSAGE, amount 0) and none otherwise; so the log holds one
\* PURCHASE record per stored pass and one PASSAGE record per use taken
\* from a pass, and nothing else.
\* ------------------------------------------------------------------------
C24_AuditLogAppendOnlyComplete ==
    /\ [](/\ Cardinality(RecordsOfType("PURCHASE")) = Len(passes)
          /\ \A i \in DOMAIN passes :
                Cardinality(PassagesOn(passes[i].pass_id))
                    = get_pass_uses(passes[i].pass_type) - passes[i].uses_remaining
          /\ DOMAIN transactions = RecordsOfType("PURCHASE") \cup RecordsOfType("PASSAGE"))
    /\ [][/\ SubSeq(transactions', 1, Len(transactions)) = transactions
          /\ Len(transactions') = Len(transactions) + (IF last'.ok THEN 1 ELSE 0)
          /\ last'.ok =>
                LET transaction == transactions'[Len(transactions')]
                IN  /\ transaction.vehicle_reg = last'.vehicle_reg
                    /\ transaction.pass_id = last'.post.pass_id
                    /\ transaction.transaction_type
                           = IF last'.op = "purchase" THEN "PURCHASE" ELSE "PASSAGE"
                    /\ transaction.amount
                           = IF last'.op = "purchase"
                             THEN get_pass_price(vehicle_type_of(last'.vehicle_reg),
                                                 last'.post.pass_type)
                             ELSE 0]_vars

C24_Witness ==
    /\ Len(transactions) = 3
    /\ Cardinality(RecordsOfType("PURCHASE")) = 2
    /\ Cardinality(RecordsOfType("PASSAGE")) = 1
    /\ last.op = "purchase" /\ last.raised /\ last.pre # NoPass
    /\ response = Response("error", 400, "n/a")

\* ------------------------------------------------------------------------
\* C29. A denial (pass expired, exhausted or absent) is returned by
\* process_vehicle without raising and reported by the controller as
\* status success with code 200 and allowed = false, while a call that
\* fails on an unknown vehicle, toll or booth or on a business rule is
\* reported as status error.
\* ------------------------------------------------------------------------
C29_DenialIsSuccessFailureIsError ==
    /\ (last.op = "process" /\ ~LastUnknown /\ ~last.ok) =>
          /\ ~last.raised
          /\ response = Response("success", 200, "false")
    /\ (last.op \in {"purchase", "process"} /\ (LastUnknown \/ last.raised)) =>
          response.status = "error"

\* ------------------------------------------------------------------------
\* C25. Within one passage attempt the steps run in the order evaluate,
\* anchor first use, recompute status, consume use: the evaluation is of
\* the pass as fetched; the window is anchored exactly when the evaluation
\* reports first use and the pass is usable, and a pass that already has
\* an anchor keeps it; on every attempt that is not a first use the status
\* is recomputed from the evaluation's two checks before the decision; a
\* use is taken exactly when the evaluation found the pass usable.
\* ------------------------------------------------------------------------
C25_PassageStepOrder ==
    ProcessedPass =>
        LET pre == last.pre
            result == last.validation
            usable == /\ pre.uses_remaining > 0
                      /\ (pre.first_used_at = NULL \/ last.eval_time < pre.valid_until)
            anchored == LastPass.first_used_at # pre.first_used_at
                           \/ LastPass.valid_until # pre.valid_until
        IN  /\ result.is_first_use <=> pre.first_used_at = NULL
            /\ result.is_valid <=> usable
            /\ last.ok <=> usable
            /\ anchored <=> (result.is_first_use /\ usable)
            /\ anchored =>
                  /\ LastPass.first_used_at = last.current_time
                  /\ LastPass.valid_until = last.current_time + Dur(pre)
            /\ (~result.is_first_use /\ ~usable) =>
                  LastPass.status
                     = determine_pass_status(last.eval_time < pre.valid_until,
                                             pre.uses_remaining > 0)
            /\ (~result.is_first_use /\ usable) =>
                  LastPass.status = IF pre.uses_remaining = 1
                                    THEN "exhausted" ELSE "active"
            /\ LastPass.uses_remaining
                  = pre.uses_remaining - (IF usable THEN 1 ELSE 0)

C25_Witness ==
    /\ ProcessedPass /\ ~last.ok
    /\ ~last.validation.is_first_use
    /\ last.pre.pass_type = "return"
    /\ last.pre.uses_remaining = 1
    /\ LastPass.uses_remaining = 1
    /\ LastPass.status = "expired"
    /\ LastPass.first_used_at = last.pre.first_used_at
    /\ \E i \in DOMAIN passes :
          /\ passes[i].pass_id # last.pre.pass_id
          /\ passes[i].first_used_at # NULL
          /\ passes[i].first_used_at > passes[i].purchased_at

\* ------------------------------------------------------------------------
\* C30. No step decreases a booth's vehicles_processed or
\* total_charges_collected; total_charges_collected of a booth changes
\* only by a successful purchase at that booth, by the price paid, and
\* vehicles_processed only by an allowed passage at that booth, by one;
\* denied passages, failed purchases and clock advances
\* leave both counters of every booth unchanged.
\* ------------------------------------------------------------------------
C30_BoothCountersMonotone ==
    [][\A k \in BoothKeys :
          LET here == last'.ok /\ k = <<last'.toll_id, last'.booth_id>>
          IN  /\ booths'[k].vehicles_processed >= booths[k].vehicles_processed
              /\ booths'[k].total_charges_collected >= booths[k].total_charges_collected
              /\ booths'[k].vehicles_processed
                    = booths[k].vehicles_processed
                        + (IF here /\ last'.op = "process" THEN 1 ELSE 0)
              /\ booths'[k].total_charges_collected
                    = booths[k].total_charges_collected
                        + (IF here /\ last'.op = "purchase"
                           THEN get_pass_price(vehicle_type_of(last'.vehicle_reg),
                                               last'.post.pass_type)
                           ELSE 0)]_vars

C30_Witness ==
    /\ booths[<<"T1", "B1">>].total_charges_collected > 0
    /\ booths[<<"T1", "B1">>].vehicles_processed = 1
    /\ booths[<<"T1", "B2">>].total_charges_collected > 0
    /\ booths[<<"T1", "B2">>].vehicles_processed = 0
    /\ booths[<<"T2", "B1">>] = [vehicles_processed |-> 0,
                                 total_charges_collected |-> 0]
    /\ last.op = "process" /\ ~last.ok /\ last.toll_id = "T2"

\* The evaluated snapshot is a SEVEN_DAY pass inside its window.
EvaluatedSevenDayInWindow ==
    /\ ev_out # NoValidation
    /\ ev_pass.pass_type = "seven_day"
    /\ ev_pass.first_used_at # NULL
    /\ ev_now < ev_pass.valid_until

TakesUse(r, pass_id) ==
    /\ reqs[r].pc = "use_pass"
    /\ reqs'[r].pc = "add_transaction"
    /\ reqs[r].toll_pass.pass_id = pass_id

\* ------------------------------------------------------------------------
\* C27. fetch -> evaluate -> mutate -> store is atomic per pass when
\* process_vehicle calls for the same pass interleave: uses_remaining never
\* goes negative, first_used_at / valid_until of a pass are set at most
\* once, and every passage allowed on a pass takes one use from the stored
\* pass, so that the allowed passages never exceed max-uses(pass class).
\* ------------------------------------------------------------------------
C27_AtomicPerPass ==
    [][\A i \in DOMAIN passes :
          /\ passes'[i].uses_remaining >= 0
          /\ passes[i].first_used_at # NULL =>
                /\ passes'[i].first_used_at = passes[i].first_used_at
                /\ passes'[i].valid_until = passes[i].valid_until
          /\ \A r \in Requests :
                TakesUse(r, passes[i].pass_id) =>
                   passes'[i].uses_remaining = passes[i].uses_remaining - 1]_vars

\* ------------------------------------------------------------------------
\* C28. Pass ids and transaction ids are unique and increasing also when
\* the purchases and passages are handled by different system instances,
\* each seeded from the row counts when it was created: stored ids
\* increase in insertion order, and no instance generates a pass id or
\* transaction id that a stored row already has.
\* ------------------------------------------------------------------------
C28_IdsUniqueAcrossInstances ==
    /\ \A i, j \in DOMAIN passes :
          i < j => passes[i].pass_id < passes[j].pass_id
    /\ \A i, j \in DOMAIN transactions :
          i < j => transactions[i].transaction_id < transactions[j].transaction_id
    /\ \A r \in Requests :
          /\ reqs[r].pc = "add_pass" => ~pass_id_taken(reqs[r].next_pass_id)
          /\ reqs[r].pc = "add_transaction" =>
                ~transaction_id_taken(reqs[r].next_transaction_id)

\* The status is one of the two that find_active_pass filters out.
Terminal(toll_pass) == toll_pass.status \in {"expired", "exhausted"}

\* ------------------------------------------------------------------------
\* C31. An exhausted or expired pass never becomes usable again: a pass
\* whose uses_remaining is 0 is stored EXHAUSTED and a pass just denied as
\* expired is stored EXPIRED; from then on no step allows a passage on it,
\* changes its status or any other field, or removes it.
\* ------------------------------------------------------------------------
C31_TerminalPassStaysTerminal ==
    /\ [](/\ \A i \in DOMAIN passes :
                passes[i].uses_remaining = 0 => passes[i].status = "exhausted"
          /\ (ProcessedPass /\ ~last.ok /\ last.validation.reason = "expired") =>
                LastPass.status = "expired")
    /\ [][/\ Len(passes') >= Len(passes)
          /\ \A i \in DOMAIN passes :
                Terminal(passes[i]) =>
                   /\ passes'[i] = passes[i]
                   /\ ~(/\ last'.op = "process" /\ last'.ok
                        /\ last'.pre.pass_id = passes[i].pass_id)]_vars

C31_Witness ==
    /\ \E i, j \in DOMAIN passes :
          /\ passes[i].status = "expired" /\ passes[i].uses_remaining = 1
          /\ passes[j].status = "exhausted" /\ passes[j].uses_remaining = 0
          /\ passes[i].vehicle_reg = last.vehicle_reg
          /\ passes[i].toll_id = last.toll_id
          /\ now > passes[i].valid_until
    /\ last.op = "process" /\ ~last.ok /\ last.pre = NoPass
    /\ Len(transactions) = 4

\* The option of a displayed list that offers the given pass type.
OptionsOfType(pass_options, pass_type) ==
    {k \in DOMAIN pass_options : pass_options[k].pass_type = pass_type}

\* What purchase_pass takes from the pricing service for a pass it stores.
PricedAsPurchased(toll_pass) ==
    /\ toll_pass.vehicle_type = vehicle_type_of(toll_pass.vehicle_reg)
    /\ toll_pass.price = get_pass_price(toll_pass.vehicle_type, toll_pass.pass_type)
    /\ toll_pass.uses_remaining <= get_pass_uses(toll_pass.pass_type)
    /\ toll_pass.first_used_at # NULL =>
          toll_pass.valid_until
             = toll_pass.first_used_at + get_pass_duration(toll_pass.pass_type)

\* ------------------------------------------------------------------------
\* C32. The pricing lookups are fixed and total over the enums: duration and
\* uses depend on the pass type only (single 1 h / 1 use, return 24 h / 2
\* uses, seven_day 168 h), the price on (vehicle type, pass type); every
\* stored pass carries the table values of its vehicle's type, and every list
\* of options returned holds exactly one option per pass type whose price and
\* uses are the values purchase_pass uses for a vehicle of that type.
\* ------------------------------------------------------------------------
C32_PricingTablesAndOptions ==
    /\ get_pass_duration("single") = 1 /\ get_pass_uses("single") = 1
    /\ get_pass_duration("return") = 24 /\ get_pass_uses("return") = 2
    /\ get_pass_duration("seven_day") = 168
    /\ \A vehicle_type \in VehicleType, pass_type \in PassType :
          /\ get_pass_price(vehicle_type, pass_type) \in Nat \ {0}
          /\ get_pass_uses(pass_type) \in Nat \ {0}
          /\ get_pass_duration(pass_type) \in Nat \ {0}
    /\ \A i \in DOMAIN passes : PricedAsPurchased(passes[i])
    /\ \A k \in DOMAIN transactions :
          transactions[k].transaction_type = "PURCHASE" =>
             transactions[k].amount
                = get_pass_price(vehicle_type_of(transactions[k].vehicle_reg),
                                 get_pass(passes, transactions[k].pass_id).pass_type)
    /\ last.pass_options # NoOptions =>
          /\ Len(last.pass_options) = Cardinality(PassType)
          /\ \A pass_type \in PassType :
                /\ Cardinality(OptionsOfType(last.pass_options, pass_type)) = 1
                /\ \A k \in OptionsOfType(last.pass_options, pass_type) :
                      /\ last.pass_options[k].price
                            = get_pass_price(vehicle_type_of(last.vehicle_reg), pass_type)
                      /\ last.pass_options[k].uses = get_pass_uses(pass_type)
                      /\ last.pass_options[k].duration
                            = format_duration(get_pass_duration(pass_type))

C32_Witness ==
    /\ last.op = "process" /\ ~last.ok /\ last.pass_options # NoOptions
    /\ vehicle_type_of(last.vehicle_reg) = "two_wheeler"
    /\ \E i, j \in DOMAIN passes :
          /\ passes[i].vehicle_reg = last.vehicle_reg
          /\ passes[i].pass_type = "return" /\ passes[i].price = 80
          /\ \E k \in DOMAIN last.pass_options :
                /\ last.pass_options[k].pass_type = "return"
                /\ last.pass_options[k].price = passes[i].price
                /\ last.pass_options[k].duration = "24 hours"
          /\ passes[j].vehicle_type = "four_wheeler" /\ passes[j].price = 500

\* ------------------------------------------------------------------------
\* C33. For every stored pass the number of PASSAGE records that reference
\* it equals the uses its pass type grants minus its uses_remaining; a pass
\* with first_used_at set has at least one PASSAGE record and a pass that
\* was never used has none.
\* ------------------------------------------------------------------------
C33_PassagesMatchUsesConsumed ==
    \A i \in DOMAIN passes :
       /\ Cardinality(PassagesOn(passes[i].pass_id))
             = get_pass_uses(passes[i].pass_type) - passes[i].uses_remaining
       /\ passes[i].first_used_at # NULL =>
             Cardinality(PassagesOn(passes[i].pass_id)) >= 1
       /\ passes[i].first_used_at = NULL =>
             Cardinality(PassagesOn(passes[i].pass_id)) = 0

C33_Witness ==
    \E i, j \in DOMAIN passes :
       /\ passes[i].pass_type = "return" /\ passes[i].uses_remaining = 0
       /\ Cardinality(PassagesOn(passes[i].pass_id)) = 2
       /\ passes[j].first_used_at = NULL
       /\ Cardinality(PassagesOn(passes[j].pass_id)) = 0
       /\ last.op = "process" /\ last.ok /\ last.pre.pass_id = passes[i].pass_id

\* TransactionRepository.find_by_booth, narrowed to one transaction type.
find_by_booth(booth_id, toll_id, transaction_type) ==
    {k \in RecordsOfType(transaction_type) :
        transactions[k].booth_id = booth_id /\ transactions[k].toll_id = toll_id}

\* The sum of the amounts of a set of audit records.
RECURSIVE SumAmounts(_)
SumAmounts(records) ==
    IF records = {} THEN 0
    ELSE LET k == CHOOSE k \in records : TRUE
         IN  transactions[k].amount + SumAmounts(records \ {k})

\* ------------------------------------------------------------------------
\* C34. Booth statistics agree with the audit log: for every booth,
\* total_charges_collected equals the sum of the amounts of the PURCHASE
\* records at that booth, which is the sum of the prices of the passes
\* bought there, and vehicles_processed equals the number of PASSAGE
\* records at that booth.
\* ------------------------------------------------------------------------
C34_BoothTotalsMatchAuditLog ==
    /\ \A key \in BoothKeys :
          /\ booths[key].total_charges_collected
                = SumAmounts(find_by_booth(key[2], key[1], "PURCHASE"))
          /\ booths[key].vehicles_processed
                = Cardinality(find_by_booth(key[2], key[1], "PASSAGE"))
    /\ \A k \in RecordsOfType("PURCHASE") :
          transactions[k].amount = get_pass(passes, transactions[k].pass_id).price

C34_Witness ==
    /\ booths[<<"T1", "B1">>].total_charges_collected = 130
    /\ Cardinality(find_by_booth("B1", "T1", "PURCHASE")) = 2
    /\ booths[<<"T1", "B1">>].vehicles_processed = 2
    /\ booths[<<"T1", "B2">>].total_charges_collected = 0

\* The pass's validity window [first_used_at, valid_until) holds the time.
InWindow(toll_pass, time) ==
    /\ toll_pass.first_used_at # NULL
    /\ toll_pass.first_used_at <= time
    /\ time < toll_pass.valid_until

\* ------------------------------------------------------------------------
\* C35. Every PASSAGE record's timestamp lies inside the validity window
\* [first_used_at, valid_until) of the pass it references, the clock being
\* non-decreasing, although process_vehicle reads the clock once for the
\* anchoring and the timestamp and validate_pass reads it again, possibly
\* later, for the time check, which a first use skips; the record of the
\* first use carries first_used_at itself.
\* ------------------------------------------------------------------------
C35_PassageTimestampInWindow ==
    /\ \A k \in RecordsOfType("PASSAGE") :
          InWindow(get_pass(passes, transactions[k].pass_id), transactions[k].timestamp)
    /\ (last.op = "process" /\ last.ok) =>
          /\ transactions[Len(transactions)].timestamp = last.current_time
          /\ last.current_time <= last.eval_time
          /\ last.validation.is_first_use =>
                transactions[Len(transactions)].timestamp = last.post.first_used_at
          /\ ~last.validation.is_first_use =>
                last.eval_time < last.post.valid_until

C35_Witness ==
    /\ last.op = "process" /\ last.ok /\ ~last.validation.is_first_use
    /\ last.eval_time > last.current_time
    /\ last.current_time > last.post.first_used_at
    /\ Cardinality(PassagesOn(last.pre.pass_id)) = 2
    /\ transactions[Len(transactions)].pass_id = last.pre.pass_id
    /\ transactions[Len(transactions)].timestamp = last.current_time

\* The stored passes whose row differs between the two lists.
ChangedRows(ps, qs) ==
    {i \in DOMAIN ps : i \in DOMAIN qs /\ qs[i] # ps[i]}

\* ------------------------------------------------------------------------
\* C36. A process_vehicle or purchase_pass for (vehicle v, toll t) changes
\* no pass other than the one it uses or creates: a row changes only in a
\* process_vehicle for its own vehicle and toll that found it, stored
\* ACTIVE, and then it is the only row that changes; a row is added only by
\* a successful purchase_pass, for its vehicle and toll, which changes no
\* existing row; no row is removed.
\* ------------------------------------------------------------------------
C36_OtherPassesUntouched ==
    [][/\ Len(passes') >= Len(passes)
       /\ Cardinality(ChangedRows(passes, passes')) <= 1
       /\ \A i \in ChangedRows(passes, passes') :
             /\ last'.op = "process"
             /\ last'.pre = passes[i]
             /\ passes[i].vehicle_reg = last'.vehicle_reg
             /\ passes[i].toll_id = last'.toll_id
             /\ passes[i].status = "active"
             /\ passes'[i] = last'.post
             /\ Len(passes') = Len(passes)
       /\ Len(passes') > Len(passes) =>
             /\ Len(passes') = Len(passes) + 1
             /\ last'.op = "purchase" /\ last'.ok
             /\ passes'[Len(passes')] = last'.post
             /\ last'.post.vehicle_reg = last'.vehicle_reg
             /\ last'.post.toll_id = last'.toll_id
             /\ ChangedRows(passes, passes') = {}]_vars

C36_Witness ==
    /\ last.op = "process" /\ last.ok
    /\ \E i, j \in DOMAIN passes :
          /\ passes[i] = last.post /\ last.pre # last.post
          /\ passes[j].vehicle_reg = last.vehicle_reg
          /\ passes[j].toll_id = last.toll_id
          /\ passes[j].status = "exhausted"
          /\ passes[j].valid_until # passes[i].valid_until
          /\ passes[i].uses_remaining = 1

\* The request in slot r is a purchase_pass for the vehicle and toll that
\* is at the given position of the handler.
PurchaseAt(r, pc, vehicle_reg, toll_id) ==
    /\ reqs[r].op = "purchase" /\ reqs[r].pc = pc
    /\ reqs[r].vehicle_reg = vehicle_reg /\ reqs[r].toll_id = toll_id

\* The step is the successful add_pass of the request in slot r.
StoresPass(r) ==
    /\ reqs[r].op = "purchase" /\ reqs[r].pc = "add_pass"
    /\ reqs'[r].pc = "add_transaction"

\* ------------------------------------------------------------------------
\* C37. When two purchase_pass calls for the same vehicle and toll
\* interleave, each in its own system instance, at most one of them
\* succeeds, so they never leave the vehicle two ACTIVE passes at the toll:
\* a purchase passes its duplicate check only while no ACTIVE pass of the
\* vehicle at the toll is stored; its add_pass stores exactly its one pass
\* and only if no pass was stored since the purchase began; and once it has
\* stored its pass, every other purchase that is still before its add_pass
\* holds a pass id that is taken, so its insert is rejected.
\* ------------------------------------------------------------------------
C37_InterleavedPurchasesOneSucceeds ==
    [][\A r \in Requests :
          /\ (reqs[r].pc = "idle" /\ reqs'[r].op = "purchase"
                                  /\ reqs'[r].pc = "add_pass") =>
                /\ find_active_pass(passes, reqs'[r].vehicle_reg, reqs'[r].toll_id) = 0
                /\ reqs'[r].next_pass_id = Len(passes) + 1
          /\ StoresPass(r) =>
                /\ passes' = Append(passes, reqs'[r].toll_pass)
                /\ reqs'[r].toll_pass.status = "active"
                /\ Len(passes) < reqs[r].next_pass_id
                /\ \A q \in Requests \ {r} :
                      PurchaseAt(q, "add_pass", reqs[r].vehicle_reg, reqs[r].toll_id) =>
                         /\ \E i \in DOMAIN passes' :
                               passes'[i].pass_id = reqs'[q].next_pass_id
                         /\ reqs'[q] = reqs[q]
          /\ (reqs[r].op = "purchase" /\ reqs[r].pc = "add_pass"
                                      /\ reqs'[r].pc = "idle") =>
                /\ passes' = passes
                /\ response' = Response("error", 500, "n/a")]_vars

C37_Witness ==
    \E r, q \in Requests :
       /\ r # q
       /\ PurchaseAt(r, "add_transaction", "MH-12-AB-1234", "T1")
       /\ PurchaseAt(q, "add_pass", "MH-12-AB-1234", "T1")
       /\ reqs[q].next_pass_id = reqs[r].toll_pass.pass_id
       /\ find_active_pass(passes, "MH-12-AB-1234", "T1") # 0
       /\ passes[find_active_pass(passes, "MH-12-AB-1234", "T1")] = reqs[r].toll_pass

====
